---- MODULE Spec2Model ----
(***************************************************************************)
(* Order pricing and inventory engine of order_system_task                 *)
(* (app/order: models.py, serializers.py, views.py).                       *)
(*                                                                         *)
(* Money is counted in cents (DecimalField, decimal_places=2).  A value    *)
(* computed in memory by Decimal arithmetic (the percentage discount) is   *)
(* exact and is counted in 1/Scale of a cent; it is quantized to cents     *)
(* when the row is saved.                                                  *)
(*                                                                         *)
(* A request is handled in two steps, as the views do: the view reads      *)
(* (get_object with its prefetch, serializer.is_valid) and then the        *)
(* serializer writes (create / update / delete).  The objects read in the  *)
(* first step are Python instances: they keep the values read, and save()  *)
(* writes those values back.                                               *)
(***************************************************************************)
EXTENDS Integers, Sequences, FiniteSets, TLC

\* ------------------------------------------------------------------ bounds
\* orders created in a run of Spec, and in a run of SpecPromo and SpecConc
MaxOrders == 1
MaxOrdersMany == 2
\* item lines of a request, and the quantity of a line
MaxLines == 2
MaxQty == 2
\* the clock runs from 0 to MaxTime
MaxTime == 1
\* requests handled at the same time in SpecConc
MaxInflight == 2
\* runs stop where a product's stock would pass MaxStock
MaxStock == 3
\* staff set a product's price to 1..MaxPrice cents
MaxPrice == 2

\* --------------------------------------------------------------- constants
\* discount_percentage has 2 decimals and get_discount divides by 100:
\* cents * (percentage * 100) is the discount in 1/10000 of a cent.
Scale == 10000
\* Order.discount: max_digits=5, decimal_places=2, at most 999.99
DiscountMax == 99999

\* None of a reference (a promo code) and None of a decimal field
Null == "NULL"
NoValue == 0 - 1
Omitted == "OMITTED"

Products == {"p1", "p2"}
Users == {"u1", "admin"}
Slots == 1..MaxInflight
Quantities == 1..MaxQty
Prices == 1..MaxPrice

\* is_staff / is_superuser of the requesting user
IsAdminUser(u) == u = "admin"

\* the rows of the product and promo code tables the model starts with
InitStock == [p \in Products |-> IF p = "p1" THEN 2 ELSE 1]
InitPrice == [p \in Products |-> IF p = "p1" THEN 1 ELSE 2]
InitPromos ==
    [c \in {"FIX", "PCT", "OLD"} |->
        CASE c = "FIX" -> [type |-> "FIXED", fixed_amount |-> 3,
                           discount_percentage |-> NoValue, max_discount_amount |-> NoValue,
                           is_active |-> TRUE, start_at |-> 0, ended_at |-> MaxTime]
          [] c = "PCT" -> [type |-> "PERCENTAGE", fixed_amount |-> NoValue,
                           discount_percentage |-> 5000, max_discount_amount |-> 2,
                           is_active |-> TRUE, start_at |-> 0, ended_at |-> MaxTime]
          [] c = "OLD" -> [type |-> "FIXED", fixed_amount |-> 1,
                           discount_percentage |-> NoValue, max_discount_amount |-> NoValue,
                           is_active |-> TRUE, start_at |-> 0, ended_at |-> 0]]

\* coupon_code of a request: omitted, or a string ("NOPE" names no row)
Coupons == {Omitted, "FIX", "PCT", "NOPE"}
CouponsPromo == {Omitted, "FIX", "OLD", "NOPE"}
CouponsConc == {Omitted, "FIX"}
CouponsPrice == {Omitted, "PCT"}

\* items of a request
ItemLine == [product : Products, quantity : Quantities]
ItemLists == UNION {[1..n -> ItemLine] : n \in 0..MaxLines}
\* what stands for the items of a request that has no items field
NoItemsField == <<[product |-> "none", quantity |-> 0]>>
\* the items field of a POST /orders/: absent, or a list
ItemFields == ItemLists \cup {NoItemsField}
ItemListsFew == {<<>>} \cup {<<[product |-> p, quantity |-> 1]>> : p \in Products}
ItemListsConc == {<<>>, <<[product |-> "p2", quantity |-> 1]>>}

VARIABLES
    stock,      \* Product.stock, per product
    price,      \* Product.price, per product, in cents
    promos,     \* PromoCode rows, by coupon_code
    orders,     \* Order rows with their OrderItem rows, by id
    nextId,     \* next Order id
    now,        \* timezone.now()
    rounding,   \* how the database backend quantizes a decimal
    req,        \* per request slot: the request being handled
    fresh,      \* history: the order that the last write created, when that
                \* was a Create answered with success, and the stock before
                \* that Create; none after any other write
    sink,       \* the confirmations handed to the task queue, in their
                \* order, each by the id of its order
    cache       \* the entry of the product list in django.core.cache

vars == <<stock, price, promos, orders, nextId, now, rounding, req, fresh, sink, cache>>

NoFresh == [id |-> 0]

\* cache.get finds no entry
NoCache == [hit |-> FALSE]

Idle == [pc |-> "idle"]

\* ------------------------------------------------------------ pure helpers
RECURSIVE SumQty(_, _)
\* total quantity of product p in a list of lines or items
SumQty(items, p) ==
    IF items = <<>> THEN 0
    ELSE (IF Head(items).product = p THEN Head(items).quantity ELSE 0)
         + SumQty(Tail(items), p)

RECURSIVE SumPrice(_)
\* sum(item.price for item in self.items.all())
SumPrice(items) ==
    IF items = <<>> THEN 0 ELSE Head(items).price + SumPrice(Tail(items))

Max(a, b) == IF a >= b THEN a ELSE b
Min(a, b) == IF a <= b THEN a ELSE b

\* Decimal.quantize to 2 places of a value x counted in 1/Scale of a cent,
\* with the rounding of the backend: ROUND_HALF_EVEN (the decimal context
\* that django.db.backends.utils.format_number uses) or half away from zero
\* (a numeric(_, 2) column that receives the unrounded Decimal).
Quantize(x, mode) ==
    LET q == x \div Scale
        r == x % Scale
    IN  IF 2 * r > Scale THEN q + 1
        ELSE IF 2 * r < Scale THEN q
        ELSE IF mode = "HALF_EVEN" THEN (IF q % 2 = 0 THEN q ELSE q + 1)
        ELSE q + 1

\* PromoCode.is_valid(user), for the promo code row with coupon_code c
is_valid(c, user) ==
    /\ promos[c].is_active
    /\ promos[c].start_at <= now
    /\ now <= promos[c].ended_at
    /\ ~ \E id \in DOMAIN orders :
            orders[id].user = user /\ orders[id].promo_code = c

\* a percentage discount that ignores max_discount_amount
get_discount_uncapped(promo, amount) ==
    IF promo.type = "FIXED" THEN
        (IF promo.fixed_amount = NoValue THEN NoValue ELSE promo.fixed_amount * Scale)
    ELSE IF promo.type = "PERCENTAGE" THEN
        (IF promo.discount_percentage = NoValue \/ promo.max_discount_amount = NoValue
         THEN NoValue
         ELSE amount * promo.discount_percentage)
    ELSE 0

\* a discount that is clamped to the amount it is taken from
get_discount_clamped(promo, amount) ==
    IF promo.type = "FIXED" THEN
        (IF promo.fixed_amount = NoValue THEN NoValue
         ELSE Min(promo.fixed_amount, amount) * Scale)
    ELSE IF promo.type = "PERCENTAGE" THEN
        (IF promo.discount_percentage = NoValue \/ promo.max_discount_amount = NoValue
         THEN NoValue
         ELSE Min(Min(amount * promo.discount_percentage,
                      promo.max_discount_amount * Scale), amount * Scale))
    ELSE 0

\* PromoCode.get_discount(amount): amount in cents, the result in 1/Scale of
\* a cent, or NoValue when the Python expression raises TypeError (min() of a
\* Decimal and None, None * Decimal) or returns None
get_discount(promo, amount) ==
    IF promo.type = "FIXED" THEN
        (IF promo.fixed_amount = NoValue THEN NoValue ELSE promo.fixed_amount * Scale)
    ELSE IF promo.type = "PERCENTAGE" THEN
        (IF promo.discount_percentage = NoValue \/ promo.max_discount_amount = NoValue
         THEN NoValue
         ELSE Min(amount * promo.discount_percentage,
                  promo.max_discount_amount * Scale))
    ELSE 0

\* Order.apply_discount on an instance whose total_price is the subtotal in
\* cents: discount and total_price as the instance holds them in memory,
\* in 1/Scale of a cent
apply_discount(promo, subtotal) ==
    LET discount_amount == get_discount(promo, subtotal)
    IN  IF discount_amount = NoValue
        THEN [ok |-> FALSE, discount |-> 0, total_price |-> 0]
        ELSE [ok |-> TRUE,
              discount |-> discount_amount,
              total_price |-> Max(0, subtotal * Scale - discount_amount)]

\* Order.save() of the decimal fields: both are quantized to cents; a
\* discount of more than 5 digits is refused by the backend
SaveOrderDecimals(inst, mem) ==
    LET d == Quantize(mem.discount, rounding)
        t == Quantize(mem.total_price, rounding)
    IN  IF d > DiscountMax
        THEN [ok |-> FALSE, order |-> inst]
        ELSE [ok |-> TRUE,
              order |-> [inst EXCEPT !.discount = d, !.total_price = t]]

\* a save that recomputes neither the discount nor the total
update_total_price_stale(inst, items) == [ok |-> TRUE, order |-> inst]

RECURSIVE SumPriceNow(_, _)
\* the sum of the items priced at the unit prices pr
SumPriceNow(items, pr) ==
    IF items = <<>> THEN 0
    ELSE pr[Head(items).product] * Head(items).quantity + SumPriceNow(Tail(items), pr)

\* a total that is recomputed from the products' prices of now
update_total_price_repriced(inst, items) ==
    LET subtotal == SumPriceNow(items, price)
    IN  IF inst.promo_code # Null
        THEN LET mem == apply_discount(promos[inst.promo_code], subtotal)
             IN  IF mem.ok THEN SaveOrderDecimals(inst, mem)
                 ELSE [ok |-> FALSE, order |-> inst]
        ELSE SaveOrderDecimals(inst, [discount |-> inst.discount * Scale,
                                      total_price |-> subtotal * Scale])

\* Order.update_total_price on the instance inst (user, promo_code,
\* discount, total_price), items being what self.items.all() yields.
\* "self.promo_code.is_valid" names the bound method and is always true.
update_total_price(inst, items) ==
    LET subtotal == SumPrice(items)
    IN  IF inst.promo_code # Null
        THEN LET mem == apply_discount(promos[inst.promo_code], subtotal)
             IN  IF mem.ok THEN SaveOrderDecimals(inst, mem)
                 ELSE [ok |-> FALSE, order |-> inst]
        ELSE SaveOrderDecimals(inst, [discount |-> inst.discount * Scale,
                                      total_price |-> subtotal * Scale])

\* Product.save() of an instance of product p holding stock s and price pr:
\* the row gets every field of the instance.  db is the product table.
SaveProduct(db, p, s, pr) ==
    [stock |-> [db.stock EXCEPT ![p] = s],
     price |-> [db.price EXCEPT ![p] = pr]]

\* a reservation that subtracts from the row as it is now, although the
\* sufficiency check is made on the instance
ReserveLineFromRow(db, line, snap) ==
    SaveProduct(db, line.product,
                db.stock[line.product] - line.quantity,
                snap.price[line.product])

\* what one line of _process_order_items writes for its product instance,
\* which holds the stock and price read when the request was validated
ReserveLine(db, line, snap) ==
    SaveProduct(db, line.product,
                snap.stock[line.product] - line.quantity,
                snap.price[line.product])

\* OrderItem.objects.create(order, product, quantity, price)
NewItem(line, snap) ==
    [product |-> line.product, quantity |-> line.quantity,
     price |-> snap.price[line.product] * line.quantity]

RECURSIVE ProcessLines(_, _, _, _)
\* the loop of _process_order_items over the lines not yet handled; db is
\* the product table so far and items the OrderItem rows created so far.
\* Every line carries its own Product instance (PrimaryKeyRelatedField
\* fetches one per line), as read at validation: snap.
ProcessLines(lines, snap, db, items) ==
    IF lines = <<>> THEN [ok |-> TRUE, db |-> db, items |-> items]
    ELSE LET line == Head(lines)
         IN  IF line.quantity > snap.stock[line.product]
             THEN [ok |-> FALSE, db |-> db, items |-> items]
             ELSE ProcessLines(Tail(lines), snap,
                               ReserveLine(db, line, snap),
                               Append(items, NewItem(line, snap)))

\* OrderSerializer._process_order_items(order, items_data)
_process_order_items(lines, snap, db) == ProcessLines(lines, snap, db, <<>>)

RECURSIVE RestoreLoop(_, _, _, _)
\* the loop of _restore_products_stock over the prefetched items; held is
\* the stock each prefetched Product instance holds (one instance per
\* product, shared by the items that reference it)
RestoreLoop(items, held, snap, db) ==
    IF items = <<>> THEN db
    ELSE LET p == Head(items).product
             s == held[p] + Head(items).quantity
         IN  RestoreLoop(Tail(items), [held EXCEPT ![p] = s], snap,
                         SaveProduct(db, p, s, snap.price[p]))

\* OrderSerializer._restore_products_stock(order): the product table after
\* it; items are the order's items as get_object prefetched them
_restore_products_stock(items, snap, db) ==
    RestoreLoop(items, snap.stock, snap, db)

\* ------------------------------------------------------------------- state
\* the tables a request writes, as one value
Tables == [stock |-> stock, price |-> price, orders |-> orders, nextId |-> nextId]

\* Order.save(): UPDATE of the row with the instance's fields, INSERT when
\* no row has that id; the OrderItem rows are another table and stay
SaveOrder(os, id, inst, items) ==
    [i \in (DOMAIN os) \cup {id} |->
        IF i = id
        THEN [user |-> inst.user, promo_code |-> inst.promo_code,
              discount |-> inst.discount, total_price |-> inst.total_price,
              items |-> items]
        ELSE os[i]]

\* instance.delete(), with the cascade to the order's items
DeleteOrder(os, id) == [i \in (DOMAIN os) \ {id} |-> os[i]]

\* the OrderItem rows of order id in the table
ItemsOf(os, id) == IF id \in DOMAIN os THEN os[id].items ELSE <<>>

\* the instance fields of an order row
InstanceOf(row) ==
    [user |-> row.user, promo_code |-> row.promo_code,
     discount |-> row.discount, total_price |-> row.total_price]

\* a block that opens no transaction: its writes stay when it raises
no_transaction(ok, after, before) == after

\* a transaction that does not cover the product rows
atomic_skips_products(ok, after, before) ==
    IF ok THEN after ELSE [before EXCEPT !.stock = after.stock]

\* "with transaction.atomic()": the writes of the block are kept when it
\* ends normally and undone when it raises
transaction_atomic(ok, after, before) == IF ok THEN after ELSE before

\* OrderSerializer.validate_coupon_code(value) for the requesting user;
\* promo is what the field validates to, detail the message of the
\* ValidationError that it raises
validate_coupon_code(value, user) ==
    IF value = Omitted THEN [ok |-> TRUE, promo |-> Null, detail |-> ""]
    ELSE IF value \notin DOMAIN promos
         THEN [ok |-> FALSE, promo |-> Null, detail |-> "Invalid promo code"]
    ELSE IF ~ is_valid(value, user)
         THEN [ok |-> FALSE, promo |-> Null,
               detail |-> "Invalid promo code or this promo code has been used before"]
    ELSE [ok |-> TRUE, promo |-> value, detail |-> ""]

\* the items field passes its validation: it is required unless the update
\* is partial.  A list without lines passes (ListSerializer, allow_empty),
\* and so does every quantity from 0 on: the IntegerField that
\* ModelSerializer builds for a PositiveIntegerField has no min_value
\* above 0.
items_is_valid(items, partial) ==
    items = NoItemsField => partial

\* a queryset that is not filtered by the requesting user
get_queryset_all(user) == DOMAIN orders

\* OrderViewSet.get_queryset: the orders the requesting user can reach
get_queryset(user) ==
    {id \in DOMAIN orders : IsAdminUser(user) \/ orders[id].user = user}

\* IsAdminOrOwner.has_object_permission for the order id that get_object
\* found
has_object_permission(user, id) ==
    IsAdminUser(user) \/ orders[id].user = user

\* OrderSerializer.create(validated_data) inside its transaction: the
\* tables after the block and how it ended
create(r, t) ==
    LET snap == r.snap
        p == _process_order_items(r.items, snap, [stock |-> t.stock, price |-> t.price])
        inst == [user |-> r.user, promo_code |-> r.promo,
                 discount |-> 0, total_price |-> 0]
        u == update_total_price(inst, p.items)
        status == IF ~ p.ok THEN "InsufficientStock"
                  ELSE IF ~ u.ok THEN "ServerError" ELSE "ok"
        after == [stock |-> p.db.stock, price |-> p.db.price,
                  orders |-> SaveOrder(t.orders, t.nextId,
                                       IF p.ok /\ u.ok THEN u.order ELSE inst,
                                       p.items),
                  nextId |-> t.nextId + 1]
    IN  [status |-> status, id |-> t.nextId,
         tables |-> transaction_atomic(status = "ok", after, t)]

\* a Replace that takes every items value, the empty list too, for new items
ReplacesItemsAlways(items_data) == TRUE

\* "if items_data:" of OrderSerializer.update: the items are replaced when
\* the request gives a list with lines
ReplacesItems(items_data) == items_data # << >>

\* OrderSerializer.update(instance, validated_data) inside its transaction;
\* items_data is validated_data.pop('items', [])
update(r, t) ==
    LET snap == r.snap
        db0 == [stock |-> t.stock, price |-> t.price]
        items_data == IF r.items = NoItemsField THEN << >> ELSE r.items
        replace == ReplacesItems(items_data)
        db1 == IF replace THEN _restore_products_stock(r.inst.items, snap, db0)
               ELSE db0
        os1 == IF replace THEN SaveOrder(t.orders, r.id, InstanceOf(r.inst), <<>>)
               ELSE t.orders
        p == _process_order_items(items_data, snap, db1)
        rows == IF replace THEN p.items ELSE ItemsOf(t.orders, r.id)
        seen == IF replace THEN p.items ELSE r.inst.items
        inst == [InstanceOf(r.inst) EXCEPT
                    !.promo_code = IF r.promo # Null THEN r.promo ELSE @]
        u == update_total_price(inst, seen)
        status == IF ~ p.ok THEN "InsufficientStock"
                  ELSE IF ~ u.ok THEN "ServerError" ELSE "ok"
        after == [stock |-> p.db.stock, price |-> p.db.price,
                  orders |-> IF p.ok /\ u.ok
                             THEN SaveOrder(os1, r.id, u.order, rows)
                             ELSE SaveOrder(os1, r.id, InstanceOf(r.inst), rows),
                  nextId |-> t.nextId]
    IN  [status |-> status, id |-> r.id,
         tables |-> transaction_atomic(status = "ok", after, t)]

\* OrderSerializer.delete(instance); it opens no transaction
delete(r, t) ==
    LET db1 == _restore_products_stock(r.inst.items, r.snap,
                                       [stock |-> t.stock, price |-> t.price])
    IN  [status |-> "ok", id |-> r.id,
         tables |-> [stock |-> db1.stock, price |-> db1.price,
                     orders |-> DeleteOrder(t.orders, r.id),
                     nextId |-> t.nextId]]

\* what the view answers; the body of an InvalidPromoCode answer holds the
\* message that validate_coupon_code raised
Responded(r, status, id) ==
    [pc |-> "responded", op |-> r.op, user |-> r.user, id |-> id,
     items |-> r.items, coupon |-> r.coupon, status |-> status,
     detail |-> IF status = "InvalidPromoCode"
                THEN validate_coupon_code(r.coupon, r.user).detail ELSE ""]

\* the request as it stands between is_valid and save
Validated(op, user, id, items, coupon, promo, inst) ==
    [pc |-> "validated", op |-> op, user |-> user, id |-> id,
     items |-> items, coupon |-> coupon, promo |-> promo, inst |-> inst,
     snap |-> [stock |-> stock, price |-> price]]

InFlightCreates == Cardinality({s \in Slots : req[s].pc = "validated" /\ req[s].op = "create"})

\* ----------------------------------------------------------------- actions
Init ==
    /\ stock = InitStock
    /\ price = InitPrice
    /\ promos = InitPromos
    /\ orders = << >>
    /\ nextId = 1
    /\ now = 0
    /\ rounding \in {"HALF_EVEN", "HALF_UP"}
    /\ req = [s \in Slots |-> Idle]
    /\ fresh = NoFresh
    /\ sink = << >>
    /\ cache = NoCache

\* no request is being handled
Quiet == \A s \in Slots : req[s] = Idle

\* the writes of a handler of request r take effect
Write(r, c) ==
    /\ \A p \in Products : c.tables.stock[p] <= MaxStock
    /\ stock' = c.tables.stock
    /\ price' = c.tables.price
    /\ orders' = c.tables.orders
    /\ nextId' = c.tables.nextId
    /\ fresh' = IF c.tables = Tables THEN fresh
                ELSE IF r.op = "create" /\ c.status = "ok"
                     THEN [id |-> c.id, stock |-> stock]
                ELSE NoFresh

\* the writes of a handler take effect and its answer is kept in slot s
Finish(s, r, c) ==
    /\ Write(r, c)
    /\ req' = [req EXCEPT ![s] = Responded(r, c.status, c.id)]

\* the writes of a worker take effect and the worker is free again
Done(s, c) ==
    /\ Write(req[s], c)
    /\ req' = [req EXCEPT ![s] = Idle]

\* OrderViewSet._send_order_confirmation(order), called by OrderViewSet.create
\* after serializer.save() has returned: send_order_confirmation_email.delay
\* hands the snapshot of the order to the task queue (queued), or raises
\* when the queue cannot be reached; the view does not catch that.
_send_order_confirmation(queued, order_id) ==
    sink' = IF queued THEN Append(sink, order_id) ELSE sink

\* a handler answers without having written
Refuse(s, r, status, id) ==
    /\ req' = [req EXCEPT ![s] = Responded(r, status, id)]
    /\ UNCHANGED <<stock, price, orders, nextId, fresh, sink, cache>>

\* OrderViewSet.create up to serializer.is_valid, for a request that passes
\* it (one that fails it is answered without a write)
CreateBegin(s, user, items, coupon) ==
    /\ req[s] = Idle
    /\ nextId + InFlightCreates <= MaxOrdersMany
    /\ LET v == validate_coupon_code(coupon, user)
           r == Validated("create", user, 0, items, coupon, v.promo, Null)
       IN  v.ok /\ req' = [req EXCEPT ![s] = r]
    /\ UNCHANGED <<stock, price, promos, orders, nextId, now, rounding, fresh, sink, cache>>

\* OrderViewSet.create from serializer.save on
CreateCommit(s) ==
    /\ req[s].pc = "validated"
    /\ req[s].op = "create"
    /\ LET c == create(req[s], Tables)
       IN  /\ Done(s, c)
           /\ IF c.status # "ok" THEN UNCHANGED sink
              ELSE \E queued \in BOOLEAN : _send_order_confirmation(queued, c.id)
    /\ UNCHANGED <<promos, now, rounding, cache>>

\* UpdateModelMixin.update up to serializer.is_valid: get_object, then the
\* validation of the fields
ReplaceBegin(s, user, id, items, coupon) ==
    /\ req[s] = Idle
    /\ LET v == validate_coupon_code(coupon, user)
           r == Validated("replace", user, id, items, coupon, v.promo,
                          IF id \in DOMAIN orders THEN orders[id] ELSE Null)
       IN  /\ id \in get_queryset(user)
           /\ v.ok
           /\ req' = [req EXCEPT ![s] = r]
    /\ UNCHANGED <<stock, price, promos, orders, nextId, now, rounding, fresh, sink, cache>>

\* UpdateModelMixin.update from perform_update on
ReplaceCommit(s) ==
    /\ req[s].pc = "validated"
    /\ req[s].op = "replace"
    /\ Done(s, update(req[s], Tables))
    /\ UNCHANGED <<promos, now, rounding, sink, cache>>

\* OrderViewSet.destroy up to get_object
DeleteBegin(s, user, id) ==
    /\ req[s] = Idle
    /\ LET r == Validated("delete", user, id, <<>>, Omitted, Null,
                          IF id \in DOMAIN orders THEN orders[id] ELSE Null)
       IN  /\ id \in get_queryset(user)
           /\ req' = [req EXCEPT ![s] = r]
    /\ UNCHANGED <<stock, price, promos, orders, nextId, now, rounding, fresh, sink, cache>>

\* OrderViewSet.destroy from serializer.delete on
DeleteCommit(s) ==
    /\ req[s].pc = "validated"
    /\ req[s].op = "delete"
    /\ Done(s, delete(req[s], Tables))
    /\ UNCHANGED <<promos, now, rounding, sink, cache>>

\* the response leaves; the slot can take the next request
Respond(s) ==
    /\ req[s].pc = "responded"
    /\ req' = [req EXCEPT ![s] = Idle]
    /\ UNCHANGED <<stock, price, promos, orders, nextId, now, rounding, fresh, sink, cache>>

\* time passes
Tick ==
    /\ now < MaxTime
    /\ now' = now + 1
    /\ UNCHANGED <<stock, price, promos, orders, nextId, rounding, req, fresh, sink, cache>>

\* OrderViewSet.create, the whole handler (POST /orders/).  The items field
\* is required (a request without it is refused), a list without lines is
\* a valid value of it (ListSerializer, allow_empty).  After the order is
\* saved the confirmation is handed to the task queue; when that raises, the
\* view answers with a server error and the saved order stays.
Create(user, items, coupon, cap) ==
    /\ Quiet
    /\ nextId <= cap
    /\ LET v == validate_coupon_code(coupon, user)
           r == Validated("create", user, 0, items, coupon, v.promo, Null)
           c == create(r, Tables)
       IN  IF ~ items_is_valid(items, FALSE) THEN Refuse(1, r, "ValidationError", 0)
           ELSE IF ~ v.ok THEN Refuse(1, r, "InvalidPromoCode", 0)
           ELSE IF c.status # "ok" THEN Finish(1, r, c) /\ UNCHANGED sink
           ELSE \E queued \in BOOLEAN :
                  LET answer == [c EXCEPT !.status =
                                       IF queued THEN "ok" ELSE "ServerError"]
                  IN  /\ Finish(1, r, answer)
                      /\ _send_order_confirmation(queued, c.id)
    /\ UNCHANGED <<promos, now, rounding, cache>>

\* UpdateModelMixin.update and partial_update, the whole handler (PUT and
\* PATCH /orders/id/)
UpdateHandler(user, id, items, coupon, partial) ==
    /\ LET v == validate_coupon_code(coupon, user)
           r == Validated(IF partial THEN "partial_update" ELSE "replace",
                          user, id, items, coupon, v.promo,
                          IF id \in DOMAIN orders THEN orders[id] ELSE Null)
       IN  IF id \notin get_queryset(user) THEN Refuse(1, r, "NotFound", id)
           ELSE IF ~ has_object_permission(user, id) THEN Refuse(1, r, "Forbidden", id)
           ELSE IF ~ items_is_valid(items, partial) THEN Refuse(1, r, "ValidationError", id)
           ELSE IF ~ v.ok THEN Refuse(1, r, "InvalidPromoCode", id)
           ELSE Finish(1, r, update(r, Tables))
    /\ UNCHANGED <<promos, now, rounding, sink, cache>>

\* UpdateModelMixin.update, the whole handler (PUT /orders/id/)
ReplaceHandler(user, id, items, coupon) == UpdateHandler(user, id, items, coupon, FALSE)

\* a PATCH /orders/id/ handled while no other request is
PartialUpdate(user, id, items, coupon) ==
    /\ Quiet
    /\ UpdateHandler(user, id, items, coupon, TRUE)

\* a PUT /orders/id/ handled while no other request is
Replace(user, id, items, coupon) ==
    /\ Quiet
    /\ ReplaceHandler(user, id, items, coupon)

\* the client that was answered 200 to its PUT sends the same PUT again
ReplaceAgain ==
    /\ req[1].pc = "responded"
    /\ req[1].op = "replace"
    /\ req[1].status = "ok"
    /\ \A s \in Slots \ {1} : req[s] = Idle
    /\ ReplaceHandler(req[1].user, req[1].id, req[1].items, req[1].coupon)

\* OrderViewSet.destroy, the whole handler (DELETE /orders/id/)
Delete(user, id) ==
    /\ Quiet
    /\ LET r == Validated("delete", user, id, <<>>, Omitted, Null,
                          IF id \in DOMAIN orders THEN orders[id] ELSE Null)
       IN  IF id \notin get_queryset(user) THEN Refuse(1, r, "NotFound", id)
           ELSE IF ~ has_object_permission(user, id) THEN Refuse(1, r, "Forbidden", id)
           ELSE Finish(1, r, delete(r, Tables))
    /\ UNCHANGED <<promos, now, rounding, sink, cache>>

\* RetrieveModelMixin.retrieve of OrderViewSet (GET /orders/id/): get_object
\* and the answer; nothing is written
Retrieve(user, id) ==
    /\ Quiet
    /\ LET r == Validated("retrieve", user, id, <<>>, Omitted, Null, Null)
       IN  IF id \notin get_queryset(user) THEN Refuse(1, r, "NotFound", id)
           ELSE IF ~ has_object_permission(user, id) THEN Refuse(1, r, "Forbidden", id)
           ELSE Refuse(1, r, "ok", id)
    /\ UNCHANGED <<promos, now, rounding, sink, cache>>

\* OrderViewSet.list (GET /orders/): the answer holds the orders of
\* get_queryset; nothing is written
List(user) ==
    /\ Quiet
    /\ req' = [req EXCEPT ![1] =
                 [pc |-> "responded", op |-> "list", user |-> user, id |-> 0,
                  items |-> <<>>, coupon |-> Omitted, status |-> "ok",
                  detail |-> "", ids |-> get_queryset(user)]]
    /\ UNCHANGED <<stock, price, promos, orders, nextId, now, rounding, fresh, sink, cache>>

\* one request at a time, on one order
Next ==
    \/ \E user \in Users, items \in ItemFields, coupon \in Coupons :
            Create(user, items, coupon, MaxOrders)
    \/ \E user \in Users, id \in 1..MaxOrders, items \in ItemLists, coupon \in Coupons :
            Replace(user, id, items, coupon)
    \/ \E user \in Users, id \in 1..MaxOrders : Delete(user, id)
    \/ \E user \in Users, id \in 1..MaxOrders : Retrieve(user, id)
    \/ \E user \in Users : List(user)
    \/ ReplaceAgain
    \/ Respond(1)

Spec == Init /\ [][Next]_vars

\* one request at a time, on several orders, while time passes
NextPromo ==
    \/ \E user \in Users, items \in ItemListsFew, coupon \in CouponsPromo :
            Create(user, items, coupon, MaxOrdersMany)
    \/ \E user \in Users, id \in 1..MaxOrdersMany, items \in ItemListsFew,
          coupon \in CouponsPromo :
            Replace(user, id, items, coupon)
    \/ \E user \in Users, id \in 1..MaxOrdersMany : Delete(user, id)
    \/ Respond(1)
    \/ Tick

SpecPromo == Init /\ [][NextPromo]_vars

\* ProductViewSet update (PUT or PATCH /products/p/ with a price) by user:
\* write access is for staff, and the view finds only products in stock;
\* the product row is saved with the new price.  A request that is refused
\* writes nothing.
SetPrice(user, p, pr) ==
    /\ Quiet
    /\ IsAdminUser(user)
    /\ stock[p] > 0
    /\ pr # price[p]
    /\ price' = [price EXCEPT ![p] = pr]
    /\ UNCHANGED <<stock, promos, orders, nextId, now, rounding, req, fresh, sink, cache>>

\* item lists of up to one line, whose quantity may be 0
ItemListsZero ==
    ItemListsFew \cup {<<[product |-> p, quantity |-> 0]>> : p \in Products}

\* one request at a time on one order; the items field of an update may be
\* absent, and a line may ask for nothing
NextItems ==
    \/ \E user \in Users, items \in ItemListsZero, coupon \in CouponsPrice :
            Create(user, items, coupon, MaxOrders)
    \/ \E user \in Users, id \in 1..MaxOrders,
          items \in ItemListsZero \cup {NoItemsField}, coupon \in CouponsPrice :
            Replace(user, id, items, coupon)
    \/ \E user \in Users, id \in 1..MaxOrders,
          items \in ItemListsZero \cup {NoItemsField}, coupon \in CouponsPrice :
            PartialUpdate(user, id, items, coupon)
    \/ \E user \in Users, id \in 1..MaxOrders : Delete(user, id)
    \/ Respond(1)

SpecItems == Init /\ [][NextItems]_vars

\* one request at a time on one order, while staff change prices
NextPrice ==
    \/ \E user \in Users, items \in ItemListsFew, coupon \in CouponsPrice :
            Create(user, items, coupon, MaxOrders)
    \/ \E user \in Users, id \in 1..MaxOrders, items \in ItemListsFew,
          coupon \in CouponsPrice :
            Replace(user, id, items, coupon)
    \/ \E user \in Users, id \in 1..MaxOrders : Delete(user, id)
    \/ \E user \in Users, p \in Products, pr \in Prices : SetPrice(user, p, pr)
    \/ Respond(1)

SpecPrice == Init /\ [][NextPrice]_vars

\* ------------------------------------------------------ the product endpoint
\* ProductViewSet.queryset = Product.objects.filter(stock__gt=0): the
\* products that every action of the product endpoint works on
product_queryset == {p \in Products : stock[p] > 0}

\* what a request to the product endpoint is answered: p is the product it
\* names, results the products of a list, each with its fields
ProductAnswer(op, user, p, status, results) ==
    [pc |-> "responded", op |-> op, user |-> user, id |-> 0, items |-> << >>,
     coupon |-> Omitted, status |-> status, detail |-> "",
     product |-> p, results |-> results]

\* ProductViewSet.list (GET /products/ without query parameters).  The data
\* of the response is kept in the cache for 15 minutes and served from
\* there while the entry is found and "not data" is false; whether the data
\* of a list without products is falsy depends on the pagination class
\* (truthy).  Every user may list.
ProductList(user) ==
    /\ Quiet
    /\ \E truthy \in BOOLEAN :
         LET found == cache.hit /\ (DOMAIN cache.data # {} \/ truthy)
             listed == [p \in product_queryset |->
                            [stock |-> stock[p], price |-> price[p]]]
             data == IF found THEN cache.data ELSE listed
         IN  /\ req' = [req EXCEPT ![1] =
                          ProductAnswer("product_list", user, "none", "ok", data)]
             /\ cache' = IF found THEN cache ELSE [hit |-> TRUE, data |-> listed]
    /\ UNCHANGED <<stock, price, promos, orders, nextId, now, rounding, fresh, sink>>

\* the timeout of the cache entry (60*15 seconds) has passed
CacheExpires ==
    /\ cache.hit
    /\ cache' = NoCache
    /\ UNCHANGED <<stock, price, promos, orders, nextId, now, rounding, req, fresh, sink>>

\* RetrieveModelMixin.retrieve of ProductViewSet (GET /products/p/): read
\* access is for every user, get_object looks p up in the queryset
ProductRetrieve(user, p) ==
    /\ Quiet
    /\ LET status == IF p \notin product_queryset THEN "NotFound" ELSE "ok"
       IN  req' = [req EXCEPT ![1] =
                     ProductAnswer("product_retrieve", user, p, status, << >>)]
    /\ UNCHANGED <<stock, price, promos, orders, nextId, now, rounding, fresh, sink, cache>>

\* the stock that staff give a product
StocksStaff == {0, MaxStock}

\* UpdateModelMixin.update of ProductViewSet with a new stock s (PUT or
\* PATCH /products/p/): IsAdminOrReadOnly, get_object, save.  The cache
\* entry of the list is left as it is.
ProductUpdate(user, p, s) ==
    /\ Quiet
    /\ LET status == IF ~ IsAdminUser(user) THEN "Forbidden"
                     ELSE IF p \notin product_queryset THEN "NotFound"
                     ELSE "ok"
       IN  /\ req' = [req EXCEPT ![1] =
                        ProductAnswer("product_update", user, p, status, << >>)]
           /\ stock' = IF status = "ok" THEN [stock EXCEPT ![p] = s] ELSE stock
           /\ fresh' = IF status = "ok" /\ s # stock[p] THEN NoFresh ELSE fresh
    /\ UNCHANGED <<price, promos, orders, nextId, now, rounding, sink, cache>>

\* one request at a time on one order, while products are listed and staff
\* restock
NextCatalog ==
    \/ \E user \in Users, items \in ItemListsFew : Create(user, items, Omitted, MaxOrders)
    \/ \E user \in Users, id \in 1..MaxOrders, items \in ItemListsFew :
            Replace(user, id, items, Omitted)
    \/ \E user \in Users, id \in 1..MaxOrders : Delete(user, id)
    \/ \E user \in Users : ProductList(user)
    \/ CacheExpires
    \/ \E user \in Users, p \in Products : ProductRetrieve(user, p)
    \/ \E user \in Users, p \in Products, s \in StocksStaff : ProductUpdate(user, p, s)
    \/ Respond(1)

SpecCatalog == Init /\ [][NextCatalog]_vars

\* requests of one user handled at the same time, each by its own worker.
\* No percentage promo code is in play, so one rounding stands for both.
InitConc == Init /\ rounding = "HALF_EVEN"

NextConc ==
    \/ \E s \in Slots, items \in ItemListsConc, coupon \in CouponsConc :
            CreateBegin(s, "u1", items, coupon)
    \/ \E s \in Slots, id \in 1..MaxOrdersMany, items \in ItemListsConc,
          coupon \in CouponsConc :
            ReplaceBegin(s, "u1", id, items, coupon)
    \/ \E s \in Slots, id \in 1..MaxOrdersMany : DeleteBegin(s, "u1", id)
    \/ \E s \in Slots : CreateCommit(s)
    \/ \E s \in Slots : ReplaceCommit(s)
    \/ \E s \in Slots : DeleteCommit(s)

SpecConc == InitConc /\ [][NextConc]_vars

\* ---------------------------------------------------- the promo code endpoint
\* what a request to the promo code endpoint is answered, kept like the
\* answer of an order request; coupon is the promo code the request names
PromoAnswer(op, user, c, status) ==
    Responded([op |-> op, user |-> user, items |-> << >>, coupon |-> c], status, 0)

\* PromoCodeViewSet.get_queryset: the promo codes the requesting user can
\* reach (every row for staff, the rows redeemable now for the others)
promo_get_queryset(user) ==
    {c \in DOMAIN promos :
        \/ IsAdminUser(user)
        \/ promos[c].is_active /\ promos[c].start_at <= now /\ now <= promos[c].ended_at}

\* Order.promo_code, on_delete=SET_NULL: the order rows after the promo code
\* row c is deleted; no other field of an order is touched
SET_NULL(os, c) ==
    [id \in DOMAIN os |->
        IF os[id].promo_code = c THEN [os[id] EXCEPT !.promo_code = Null] ELSE os[id]]

\* DestroyModelMixin.destroy of PromoCodeViewSet (DELETE /promocodes/c/):
\* IsAdminOrReadOnly, get_object, instance.delete()
PromoDestroy(user, c) ==
    /\ Quiet
    /\ IF ~ IsAdminUser(user) THEN
            /\ req' = [req EXCEPT ![1] = PromoAnswer("promo_destroy", user, c, "Forbidden")]
            /\ UNCHANGED <<promos, orders, fresh>>
       ELSE IF c \notin promo_get_queryset(user) THEN
            /\ req' = [req EXCEPT ![1] = PromoAnswer("promo_destroy", user, c, "NotFound")]
            /\ UNCHANGED <<promos, orders, fresh>>
       ELSE /\ req' = [req EXCEPT ![1] = PromoAnswer("promo_destroy", user, c, "ok")]
            /\ promos' = [k \in (DOMAIN promos) \ {c} |-> promos[k]]
            /\ orders' = SET_NULL(orders, c)
            /\ fresh' = NoFresh
    /\ UNCHANGED <<stock, price, nextId, now, rounding, sink, cache>>

\* the fields of a promo code that a request body can give
PromoFields == {"type", "fixed_amount", "discount_percentage", "max_discount_amount",
                "start_at", "ended_at", "is_active"}

\* a request body of the promo code endpoint: given are the fields that the
\* body holds, the other fields of the record are not read; NoValue is null
PromoBody(given, type, fixed_amount, start_at, ended_at) ==
    [given |-> given, type |-> type, fixed_amount |-> fixed_amount,
     discount_percentage |-> 5000, max_discount_amount |-> NoValue,
     start_at |-> start_at, ended_at |-> ended_at, is_active |-> FALSE]

\* the smallest fixed_amount (max_digits=10) that Order.discount cannot hold
FixedHuge == DiscountMax + 1

\* the request bodies that staff send
PromoBodies ==
    { PromoBody({"type", "fixed_amount", "start_at", "ended_at"}, "FIXED", 3, 0, MaxTime),
      PromoBody({"type", "start_at", "ended_at"}, "FIXED", NoValue, 0, MaxTime),
      PromoBody({"type", "discount_percentage", "start_at", "ended_at"},
                "PERCENTAGE", NoValue, 0, MaxTime),
      PromoBody({"type", "fixed_amount", "start_at", "ended_at"},
                "FIXED", FixedHuge, 0, MaxTime),
      PromoBody({"type", "fixed_amount", "start_at", "ended_at"}, "FIXED", 3, MaxTime, 0),
      PromoBody({"fixed_amount", "start_at", "ended_at"}, Null, NoValue, 0, MaxTime),
      PromoBody({"is_active"}, Null, NoValue, 0, 0) }

\* the fields without default that a body must give unless the request is a
\* partial update (coupon_code and coupon_name are always given here)
PromoRequired == {"type", "start_at", "ended_at"}

\* PromoCodeSerializer.validate(data).  data.get of a field that the body
\* does not give is None; comparing None with a date or with None raises
\* TypeError, which no handler catches.
validate(data) ==
    LET promo_type == IF "type" \in data.given THEN data.type ELSE Null
        fixed_amount == IF "fixed_amount" \in data.given
                        THEN data.fixed_amount ELSE NoValue
        discount_percentage == IF "discount_percentage" \in data.given
                               THEN data.discount_percentage ELSE NoValue
    IN  IF promo_type = "FIXED" /\ fixed_amount = NoValue THEN "ValidationError"
        ELSE IF promo_type = "PERCENTAGE" /\ discount_percentage = NoValue
             THEN "ValidationError"
        ELSE IF ~ ({"start_at", "ended_at"} \subseteq data.given) THEN "ServerError"
        ELSE IF data.start_at > data.ended_at THEN "ValidationError"
        ELSE "ok"

\* serializer.is_valid of PromoCodeSerializer: the fields, then validate
promo_is_valid(data, partial) ==
    IF ~ partial /\ ~ (PromoRequired \subseteq data.given) THEN "ValidationError"
    ELSE validate(data)

\* a PromoCode row without the fields that have a default or may be null
PromoDefaults ==
    [type |-> Null, fixed_amount |-> NoValue, discount_percentage |-> NoValue,
     max_discount_amount |-> NoValue, is_active |-> TRUE,
     start_at |-> 0, ended_at |-> 0]

\* ModelSerializer.create / update: the row gets the fields that the body
\* gives and keeps the others
SavePromo(row, data) ==
    [f \in DOMAIN row |-> IF f \in data.given THEN data[f] ELSE row[f]]

\* CreateModelMixin.create of PromoCodeViewSet (POST /promocodes/) for the
\* coupon_code c, which is unique
PromoCreate(user, c, data) ==
    /\ Quiet
    /\ LET status == IF ~ IsAdminUser(user) THEN "Forbidden"
                     ELSE IF c \in DOMAIN promos THEN "ValidationError"
                     ELSE promo_is_valid(data, FALSE)
       IN  /\ req' = [req EXCEPT ![1] = PromoAnswer("promo_create", user, c, status)]
           /\ promos' = IF status # "ok" THEN promos
                        ELSE [k \in (DOMAIN promos) \cup {c} |->
                                IF k = c THEN SavePromo(PromoDefaults, data)
                                ELSE promos[k]]
    /\ UNCHANGED <<stock, price, orders, nextId, now, rounding, fresh, sink, cache>>

\* UpdateModelMixin.update and partial_update of PromoCodeViewSet (PUT and
\* PATCH /promocodes/c/)
PromoUpdate(user, c, data, partial) ==
    /\ Quiet
    /\ LET status == IF ~ IsAdminUser(user) THEN "Forbidden"
                     ELSE IF c \notin promo_get_queryset(user) THEN "NotFound"
                     ELSE promo_is_valid(data, partial)
           op == IF partial THEN "promo_partial_update" ELSE "promo_update"
       IN  /\ req' = [req EXCEPT ![1] = PromoAnswer(op, user, c, status)]
           /\ promos' = IF status # "ok" THEN promos
                        ELSE [promos EXCEPT ![c] = SavePromo(promos[c], data)]
    /\ UNCHANGED <<stock, price, orders, nextId, now, rounding, fresh, sink, cache>>

\* the promo codes that requests name in SpecCodes
CodesStaff == {"FIX", "NEW"}
CouponsCodes == {Omitted, "FIX", "NEW"}

\* one request at a time on one order, while staff manage the promo codes
NextCodes ==
    \/ \E user \in Users, items \in ItemListsFew, coupon \in CouponsCodes :
            Create(user, items, coupon, MaxOrders)
    \/ \E user \in Users, id \in 1..MaxOrders, items \in ItemListsFew,
          coupon \in CouponsCodes :
            Replace(user, id, items, coupon)
    \/ \E user \in Users, id \in 1..MaxOrders : Delete(user, id)
    \/ \E user \in Users, c \in CodesStaff, data \in PromoBodies :
            PromoCreate(user, c, data)
    \/ \E user \in Users, c \in CodesStaff, data \in PromoBodies, partial \in BOOLEAN :
            PromoUpdate(user, c, data, partial)
    \/ \E user \in Users, c \in CodesStaff : PromoDestroy(user, c)
    \/ Respond(1)

SpecCodes == Init /\ [][NextCodes]_vars

\* ------------------------------------------------------------------ claims
RECURSIVE HeldIn(_, _, _)
\* total quantity of product p held by the items of the orders ids of os
HeldIn(os, ids, p) ==
    IF ids = {} THEN 0
    ELSE LET id == CHOOSE i \in ids : TRUE
         IN  SumQty(os[id].items, p) + HeldIn(os, ids \ {id}, p)

Held(p) == HeldIn(orders, DOMAIN orders, p)

\* a step of Spec or SpecPromo in which the handler of op answers
Answers(op) ==
    /\ Quiet
    /\ req'[1].pc = "responded"
    /\ req'[1].op = op

\* the coupon_code of a request passes validate_coupon_code
CouponAccepted(coupon, user) ==
    \/ coupon = Omitted
    \/ coupon \in DOMAIN promos /\ is_valid(coupon, user)

\* some line of the request asks for more than the product's stock
AsksTooMuch(items) ==
    /\ items # NoItemsField
    /\ \E i \in DOMAIN items : items[i].quantity > stock[items[i].product]

\* C1: a successful Create lowers the stock of every product by the total
\* quantity the request asks for it, over all its lines, and leaves the
\* stock of the other products as it was.
C1_CreateLowersStockByRequested ==
    [][Answers("create") /\ req'[1].status = "ok"
        => \A p \in Products : stock'[p] = stock[p] - SumQty(req'[1].items, p)]_vars

C3_StockNeverNegative == \A p \in Products : stock[p] >= 0

\* two orders hold the unit of a product that had one unit, and the stock
\* of the product is 0
C3_Witness ==
    /\ stock["p2"] = 0
    /\ Cardinality({id \in DOMAIN orders : SumQty(orders[id].items, "p2") > 0}) >= 2

\* C4: after a successful Create or Replace the order's total_price is
\* max(0, subtotal - discount), and its discount is what get_discount gives
\* for the attached promo code on the subtotal (0 without promo code).
C4_TotalIsSubtotalMinusDiscount ==
    (req[1].pc = "responded" /\ req[1].op \in {"create", "replace"}
        /\ req[1].status = "ok")
    => LET o == orders[req[1].id]
           subtotal == SumPrice(o.items)
       IN  /\ o.discount * Scale =
                 IF o.promo_code = Null THEN 0
                 ELSE get_discount(promos[o.promo_code], subtotal)
           /\ o.total_price = Max(0, subtotal - o.discount)

\* C5: no user owns two orders that reference the same promo code.
C5_OnePromoCodePerUser ==
    \A i \in DOMAIN orders, j \in DOMAIN orders :
        (i # j /\ orders[i].user = orders[j].user /\ orders[i].promo_code # Null)
        => orders[i].promo_code # orders[j].promo_code

\* C6: when no request is being handled, the stock of every product plus
\* the quantity of it held by the existing order items is what it was
\* before the requests started.
C6_StockPlusHeldConserved ==
    (\A s \in Slots : req[s] = Idle)
    => \A p \in Products : stock[p] + Held(p) = InitStock[p]

\* C7: of the requests of one user that name one promo code, handled at the
\* same time, at most one ends with the promo code on its order.
C7_PromoAttachedAtMostOnce ==
    \A u \in Users, c \in DOMAIN promos :
        Cardinality({id \in DOMAIN orders :
                        orders[id].user = u /\ orders[id].promo_code = c}) <= 1

\* no two lines (or items) of the list name the same product
NoRepeat(items) ==
    \A i, j \in DOMAIN items : items[i].product = items[j].product => i = j

\* C8: a successful Replace of an order's items leaves every product with
\* its stock before, plus the quantity the old items held, minus the
\* quantity the new items ask for: a product of the old items only, of the
\* new items only, or of both.  It is stated here for the requests the claim
\* is about whatever a line that repeats a product does (C1): neither the
\* old items nor the new lines name a product twice.
C8_ReplaceMovesStock ==
    [][Answers("replace") /\ req'[1].status = "ok" /\ req'[1].items # << >>
         /\ NoRepeat(req'[1].items) /\ NoRepeat(orders[req'[1].id].items)
        => \A p \in Products :
              stock'[p] = stock[p] + SumQty(orders[req'[1].id].items, p)
                          - SumQty(req'[1].items, p)]_vars

\* C9: a Delete that follows the successful Create of the order, with no
\* write in between, removes the order and gives every product the stock
\* it had before the Create.
C9_DeleteUndoesCreate ==
    [][Answers("delete") /\ req'[1].status = "ok" /\ fresh.id = req'[1].id
        => /\ req'[1].id \notin DOMAIN orders'
           /\ stock' = fresh.stock]_vars

\* C10: a Replace that fails with InsufficientStock or InvalidPromoCode
\* changes nothing: the order keeps its items, promo code, discount and
\* total_price, and every product keeps its stock.
C10_FailedReplaceChangesNothing ==
    [][Answers("replace") /\ req'[1].status \in {"InsufficientStock", "InvalidPromoCode"}
        => UNCHANGED <<stock, price, orders>>]_vars

\* a Replace of an order that holds items was refused for its second line,
\* after the stock of the old items had been released and its first line
\* reserved
C10_Witness ==
    /\ req[1].pc = "responded"
    /\ req[1].op = "replace"
    /\ req[1].status = "InsufficientStock"
    /\ orders[req[1].id].items # << >>
    /\ Len(req[1].items) = 2
    /\ req[1].items[1].quantity <= stock[req[1].items[1].product]
    /\ req[1].items[2].quantity > stock[req[1].items[2].product]

\* the user an answered Create or Replace acts for: the requesting user of
\* a Create, the owner of the order of a Replace
OwnerOf(r) == IF r.op = "create" THEN r.user ELSE orders[r.id].user

\* is_redeemable(promo, user, now) for the coupon_code c: the code exists, is
\* active, is inside its window, and user has no order that references it
Redeemable(c, user) == c \in DOMAIN promos /\ is_valid(c, user)

\* C11: a Create or Replace that carries a coupon_code attaches the promo
\* code iff the code exists, is active, is inside its window and the order's
\* user has no order that references it; otherwise it fails with
\* InvalidPromoCode and changes no order, no item and no stock.  Stated for
\* the requests that reach their order and are not refused for their items.
C11_AttachesIffRedeemable ==
    [][(/\ Answers("create") \/ Answers("replace")
        /\ req'[1].coupon # Omitted
        /\ req'[1].status \notin {"NotFound", "ValidationError", "InsufficientStock",
                                  "ServerError"})
        => IF Redeemable(req'[1].coupon, OwnerOf(req'[1]))
           THEN /\ req'[1].status = "ok"
                /\ orders'[req'[1].id].promo_code = req'[1].coupon
           ELSE /\ req'[1].status = "InvalidPromoCode"
                /\ UNCHANGED <<stock, price, orders>>]_vars

\* C12: Replace is idempotent: the same Replace request applied a second
\* time, directly after it was applied, changes neither the order (items,
\* promo code, discount, total_price) nor the stock of any product.
C12_ReplaceIsIdempotent ==
    [][(/\ req[1].pc = "responded" /\ req[1].op = "replace" /\ req[1].status = "ok"
        /\ req'[1].pc = "responded")
        => UNCHANGED <<stock, price, orders>>]_vars

\* the order that the answered Create or Replace of slot 1 left
Answered == orders[req[1].id]

\* slot 1 holds the answer of a successful Create or Replace
AnsweredOk ==
    /\ req[1].pc = "responded"
    /\ req[1].op \in {"create", "replace"}
    /\ req[1].status = "ok"

\* C13: after a successful Create or Replace of an order with a FIXED promo
\* code, the stored discount is fixed_amount whatever the subtotal, and
\* total_price is max(0, subtotal - fixed_amount): when fixed_amount exceeds
\* the subtotal, total_price is 0 and the discount is still fixed_amount.
C13_FixedDiscountNotClamped ==
    (AnsweredOk /\ Answered.promo_code # Null
        /\ promos[Answered.promo_code].type = "FIXED")
    => LET fixed_amount == promos[Answered.promo_code].fixed_amount
           subtotal == SumPrice(Answered.items)
       IN  /\ Answered.discount = fixed_amount
           /\ Answered.total_price = Max(0, subtotal - fixed_amount)

\* an order with items whose subtotal is below the fixed_amount of its promo
\* code: the discount is above the subtotal and the total is 0
C13_Witness ==
    /\ AnsweredOk
    /\ Answered.promo_code = "FIX"
    /\ Answered.items # << >>
    /\ SumPrice(Answered.items) < promos["FIX"].fixed_amount
    /\ Answered.discount > SumPrice(Answered.items)
    /\ Answered.total_price = 0

\* slot 1 holds the answer of a successful Create or Replace of an order
\* with a PERCENTAGE promo code
AnsweredPercentage ==
    /\ AnsweredOk
    /\ Answered.promo_code # Null
    /\ promos[Answered.promo_code].type = "PERCENTAGE"

\* min(subtotal * discount_percentage / 100, max_discount_amount) for the
\* answered order, in 1/Scale of a cent
PercentageOfAnswered ==
    LET promo == promos[Answered.promo_code]
    IN  Min(SumPrice(Answered.items) * promo.discount_percentage,
            promo.max_discount_amount * Scale)

\* C14 as claimed: for a PERCENTAGE promo code the stored discount equals
\* min(subtotal * discount_percentage / 100, max_discount_amount).
C14_PercentageDiscountExact ==
    AnsweredPercentage => Answered.discount * Scale = PercentageOfAnswered

\* C14 as amended: for a PERCENTAGE promo code the stored discount is
\* min(subtotal * discount_percentage / 100, max_discount_amount) rounded to
\* cents as the database backend rounds, and never exceeds
\* max_discount_amount.
C14_PercentageDiscountRounded ==
    AnsweredPercentage
    => /\ Answered.discount = Quantize(PercentageOfAnswered, rounding)
       /\ Answered.discount <= promos[Answered.promo_code].max_discount_amount

\* the percentage of the subtotal is above max_discount_amount and the
\* stored discount is max_discount_amount
C14_Witness ==
    /\ AnsweredPercentage
    /\ SumPrice(Answered.items) * promos[Answered.promo_code].discount_percentage
         > promos[Answered.promo_code].max_discount_amount * Scale
    /\ Answered.discount = promos[Answered.promo_code].max_discount_amount

\* C15: the price of an order item is the product's price times the
\* quantity, taken when the item is created; a later change of the product's
\* price changes no order item and no order, and a Replace that does not
\* replace the items keeps the items' prices and the order's total_price.
C15_ItemPriceFrozen ==
    [][/\ ((Answers("create") \/ Answers("replace")) /\ req'[1].status = "ok"
             /\ req'[1].items # << >>)
          => /\ Len(orders'[req'[1].id].items) = Len(req'[1].items)
             /\ \A i \in DOMAIN req'[1].items :
                   orders'[req'[1].id].items[i].price
                     = price[req'[1].items[i].product] * req'[1].items[i].quantity
       /\ (price' # price) => (orders' = orders)
       /\ (Answers("replace") /\ req'[1].status = "ok" /\ req'[1].items = << >>
             /\ req'[1].coupon = Omitted)
          => /\ orders'[req'[1].id].items = orders[req'[1].id].items
             /\ orders'[req'[1].id].total_price = orders[req'[1].id].total_price]_vars

\* a Replace without items was answered for an order that holds an item
\* whose product has changed its price since the item was created
C15_Witness ==
    /\ AnsweredOk
    /\ req[1].op = "replace"
    /\ req[1].items = << >>
    /\ req[1].coupon = Omitted
    /\ \E i \in DOMAIN Answered.items :
          Answered.items[i].price
            # price[Answered.items[i].product] * Answered.items[i].quantity

C17_CreateNeedsItems ==
    [][(Answers("create") /\ req'[1].items \in {NoItemsField, << >>})
        => /\ req'[1].status = "ValidationError"
           /\ UNCHANGED <<stock, price, orders>>]_vars

\* C18: a Retrieve, Replace or Delete of an order by a user who is neither
\* its owner nor staff answers NotFound and changes no order, no item and no
\* stock; a list of orders answered to a user who is not staff holds only
\* orders of that user.
C18_OthersOrdersNotFound ==
    [][/\ ((Answers("retrieve") \/ Answers("replace") \/ Answers("delete"))
             /\ req'[1].id \in DOMAIN orders
             /\ orders[req'[1].id].user # req'[1].user
             /\ ~ IsAdminUser(req'[1].user))
          => /\ req'[1].status = "NotFound"
             /\ UNCHANGED <<stock, price, orders>>
       /\ (Answers("list") /\ ~ IsAdminUser(req'[1].user))
          => /\ \A id \in req'[1].ids : orders[id].user = req'[1].user
             /\ UNCHANGED <<stock, price, orders>>]_vars

\* a user who is not staff was answered NotFound for an order of another
\* user that exists
C18_Witness ==
    /\ req[1].pc = "responded"
    /\ req[1].op \in {"retrieve", "replace", "delete"}
    /\ req[1].status = "NotFound"
    /\ ~ IsAdminUser(req[1].user)
    /\ req[1].id \in DOMAIN orders
    /\ orders[req[1].id].user # req[1].user

\* C19: the confirmation of an order is handed to the Notification Sink only
\* by a Create that has committed the order, never by a Create that failed
\* and left no order; and a Create that has committed its order answers
\* success, whether or not the hand-over worked.
C19_NotifyAfterCommitNeverFails ==
    [][/\ (sink' # sink)
          => /\ Answers("create")
             /\ \E id \in (DOMAIN orders') \ (DOMAIN orders) : sink' = Append(sink, id)
       /\ (Answers("create") /\ req'[1].status # "ok" /\ orders' = orders)
          => sink' = sink
       /\ (Answers("create") /\ orders' # orders)
          => req'[1].status = "ok"]_vars

\* C20: in a Replace the sufficiency check of the new item lines sees the
\* stock that the order's old items release: a Replace that reaches its
\* order with an accepted coupon succeeds whenever, for every product, the
\* quantity requested is at most the stock before plus the quantity held by
\* the order's old items.
C20_ReplaceCheckSeesReleasedStock ==
    [][(/\ Answers("replace")
        /\ req'[1].items # << >>
        /\ req'[1].status \notin {"NotFound", "Forbidden", "InvalidPromoCode"}
        /\ \A p \in Products :
              SumQty(req'[1].items, p)
                <= stock[p] + SumQty(orders[req'[1].id].items, p))
        => req'[1].status = "ok"]_vars

\* C21: in every state an order without promo code reference has discount 0
\* and a total_price that is the subtotal of its items, also after staff
\* deleted the promo code that the order referenced.
C21_NullPromoMeansNoDiscount ==
    \A id \in DOMAIN orders :
        orders[id].promo_code = Null
        => /\ orders[id].discount = 0
           /\ orders[id].total_price = SumPrice(orders[id].items)

\* user u holds an order that carries the promo code c
Redeemed(u, c) ==
    \E id \in DOMAIN orders : orders[id].user = u /\ orders[id].promo_code = c

\* C22: once a user has attached a promo code to one of their orders, every
\* later Create or Replace of that user that names this code is answered
\* InvalidPromoCode, whatever happens to the order: no step leads from a
\* state where an order of the user carries the code to a state where
\* validate_coupon_code accepts the code for that user.
C22_RedeemedCodeStaysRefused ==
    [][\A c \in {"FIX", "OLD"} :
          Redeemed("u1", c) => ~ CouponAccepted(c, "u1")']_vars

\* a promo code row is well formed
WellFormed(promo) ==
    /\ promo.type = "FIXED" => promo.fixed_amount # NoValue
    /\ promo.type = "PERCENTAGE"
        => promo.discount_percentage # NoValue /\ promo.max_discount_amount # NoValue
    /\ promo.start_at <= promo.ended_at

\* C23: every promo code that exists is well formed: a FIXED one has a
\* fixed_amount, a PERCENTAGE one has a discount_percentage and a
\* max_discount_amount, and start_at is not after ended_at.
C23_PromoCodesWellFormed ==
    \A c \in DOMAIN promos : WellFormed(promos[c])

\* C24: a Create or Replace that names a coupon code which passes the
\* redeemability check is answered with one of the defined outcomes and
\* never with a server error that the discount computation or the save of
\* the discount raised (an order that was committed is left aside: there the
\* server error is the one of the confirmation hand-over).
C24_DiscountNeverRaises ==
    [][(/\ Answers("create") \/ Answers("replace")
        /\ req'[1].coupon # Omitted
        /\ CouponAccepted(req'[1].coupon, req'[1].user)
        /\ ~ (req'[1].op = "create" /\ orders' # orders))
        => req'[1].status \in {"ok", "ValidationError", "InsufficientStock",
                               "InvalidPromoCode", "NotFound", "Forbidden"}]_vars

\* C25: in every state every order item has a quantity of at least 1.
C25_QuantityAtLeastOne ==
    \A id \in DOMAIN orders :
        \A i \in DOMAIN orders[id].items : orders[id].items[i].quantity >= 1

\* C26: a Replace (PUT or PATCH) whose items are absent or a list without
\* lines changes no order item, no product and no other order; of the order
\* itself only the promo code reference (when the request names a coupon
\* code), the discount and the total_price may change.  (A PUT without items
\* field is refused and changes nothing at all.)
C26_NoItemsSkipsItemsStep ==
    [][((Answers("replace") \/ Answers("partial_update"))
          /\ req'[1].items \in {<< >>, NoItemsField})
        => /\ stock' = stock
           /\ price' = price
           /\ DOMAIN orders' = DOMAIN orders
           /\ \A id \in DOMAIN orders :
                 /\ orders'[id].items = orders[id].items
                 /\ orders'[id].user = orders[id].user
                 /\ id # req'[1].id => orders'[id] = orders[id]
                 /\ req'[1].coupon = Omitted
                      => orders'[id].promo_code = orders[id].promo_code]_vars

\* a PATCH without items field gave a promo code to an order that holds
\* items, and the items are still there
C26_Witness ==
    /\ req[1].pc = "responded"
    /\ req[1].op = "partial_update"
    /\ req[1].status = "ok"
    /\ req[1].items = NoItemsField
    /\ req[1].coupon = "PCT"
    /\ Answered.items # << >>
    /\ Answered.promo_code = "PCT"
    /\ Answered.discount > 0

\* C27: every successful Replace hands a confirmation of the replaced order
\* to the Notification Sink, as a successful Create does.
C27_ReplaceNotifies ==
    [][((Answers("create") \/ Answers("replace")) /\ req'[1].status = "ok")
        => sink' = Append(sink, req'[1].id)]_vars

\* C28: an InvalidPromoCode answer is the same whatever made the coupon code
\* invalid: the answer to a request that names a code which exists but is
\* expired, inactive or already redeemed by the user has the body of the
\* answer that the same request gets for a code that does not exist.
C28_InvalidPromoCodeIsGeneric ==
    (req[1].pc = "responded" /\ req[1].status = "InvalidPromoCode")
    => req[1].detail = validate_coupon_code("NOPE", req[1].user).detail

\* C29: the answer to a product list request holds only products whose
\* stock is above 0 when the answer is given, also when the answer comes
\* from the cache.
C29_ListedProductsInStock ==
    (req[1].pc = "responded" /\ req[1].op = "product_list")
    => \A p \in DOMAIN req[1].results : stock[p] > 0

\* C30: staff reach every product through the product endpoint whatever its
\* stock is: a retrieve or an update by staff is answered with success, and
\* the update is able to raise the stock of a product that has none.
C30_StaffReachEveryProduct ==
    [][((Answers("product_retrieve") \/ Answers("product_update"))
          /\ IsAdminUser(req'[1].user))
        => req'[1].status = "ok"]_vars

====
